---- MODULE Spec2Model ----
(***************************************************************************)
(* Model of js/scripts.js of contrast-grid: the text parser getInputData,  *)
(* the URL codec setQueryParams / getDataFromQueryParams, the form and the *)
(* table written by the handlers, the contrast threshold and the flags it  *)
(* puts on the cells, and the browser's session history.                   *)
(*                                                                         *)
(* A JavaScript string is a sequence of atoms.  An atom is either one      *)
(* punctuation or whitespace character (":", ";", ",", " ", "\n", "#",     *)
(* "%", ...) or a run of letters and digits ("red", "fff", "Brand", "5B")  *)
(* that every function below treats character by character in the same    *)
(* way (none of them splits, trims, escapes or percent-encodes a letter or *)
(* a digit).                                                               *)
(***************************************************************************)
EXTENDS Integers, Sequences, FiniteSets, TLC

(***************************************************************************)
(* String primitives of the JavaScript runtime.                            *)
(***************************************************************************)

\* String.prototype.split(d): the pieces between the occurrences of d.
RECURSIVE Split(_, _)
Split(s, d) ==
  IF \E i \in 1..Len(s) : s[i] = d
  THEN LET i == CHOOSE k \in 1..Len(s) :
                  s[k] = d /\ \A j \in 1..(k - 1) : s[j] # d
       IN <<SubSeq(s, 1, i - 1)>> \o Split(SubSeq(s, i + 1, Len(s)), d)
  ELSE <<s>>

\* Array.prototype.join(d).
RECURSIVE Join(_, _)
Join(parts, d) ==
  IF parts = <<>> THEN <<>>
  ELSE IF Len(parts) = 1 THEN parts[1]
  ELSE parts[1] \o d \o Join(Tail(parts), d)

\* parts.join(''): the strings of parts one after the other.
RECURSIVE Concat(_)
Concat(parts) ==
  IF Len(parts) = 0 THEN <<>>
  ELSE IF Len(parts) = 1 THEN parts[1]
  ELSE Concat(SubSeq(parts, 1, Len(parts) \div 2))
       \o Concat(SubSeq(parts, Len(parts) \div 2 + 1, Len(parts)))

\* The atoms String.prototype.trim removes.
WhiteSpace == {" ", "\n"}

\* String.prototype.trim().
RECURSIVE Trim(_)
Trim(s) ==
  IF s = <<>> THEN s
  ELSE IF s[1] \in WhiteSpace THEN Trim(Tail(s))
  ELSE IF s[Len(s)] \in WhiteSpace THEN Trim(SubSeq(s, 1, Len(s) - 1))
  ELSE s

\* item.replaceAll(/;(.*)/g, ''): the first semicolon and all after it go.
RemoveSemicolon(s) ==
  IF \E i \in 1..Len(s) : s[i] = ";"
  THEN LET i == CHOOSE k \in 1..Len(s) :
                  s[k] = ";" /\ \A j \in 1..(k - 1) : s[j] # ";"
       IN SubSeq(s, 1, i - 1)
  ELSE s

\* item.replaceAll(/,$/g, ''): one comma at the very end goes.
RemoveTrailingComma(s) ==
  IF s # <<>> /\ s[Len(s)] = "," THEN SubSeq(s, 1, Len(s) - 1) ELSE s

(***************************************************************************)
(* tinycolor (external library): the strings it accepts as colors.  Named  *)
(* colors and hex colors with or without the leading "#".                  *)
(***************************************************************************)
ValidColors == { <<"red">>, <<"tan">>, <<"fff">>, <<"#", "fff">> }

\* tinycolor(item).isValid()
isValid(item) == item \in ValidColors

(***************************************************************************)
(* getInputData                                                            *)
(*                                                                         *)
(* An entry (the object `data`) is the sequence of its <<key, value>>      *)
(* pairs in insertion order, which is the order JSON.stringify writes.     *)
(***************************************************************************)

\* SetKey that keeps the value a key already has.
SetKeyKeepFirst(data, key, value) ==
  IF \E i \in 1..Len(data) : data[i][1] = key THEN data
  ELSE Append(data, <<key, value>>)

\* data[key] = value: overwrite in place, or append a new key.
SetKey(data, key, value) ==
  IF \E i \in 1..Len(data) : data[i][1] = key
  THEN [i \in 1..Len(data) |->
          IF data[i][1] = key THEN <<key, value>> ELSE data[i]]
  ELSE Append(data, <<key, value>>)

\* ('name' in data)
HasKey(data, key) == \E i \in 1..Len(data) : data[i][1] = key

\* data.color, data.name
GetKey(data, key) ==
  data[CHOOSE i \in 1..Len(data) : data[i][1] = key][2]

\* CleanItem with one trim, after both replacements.
CleanItemOneTrim(item) == Trim(RemoveTrailingComma(RemoveSemicolon(item)))

\* The two replaceAll(...).trim() statements of the inner loop.
CleanItem(item) == Trim(RemoveTrailingComma(Trim(RemoveSemicolon(item))))

\* ItemStep without the index guard: the third and later segments of a
\* line are classified too.
ItemStepAllSegments(st, rawItem, index) ==
  IF isValid(CleanItem(rawItem))
  THEN [data |-> SetKey(st.data, "color", CleanItem(rawItem)),
        lineHasValidColor |-> TRUE]
  ELSE IF Len(CleanItem(rawItem)) > 0
  THEN [data |-> SetKey(st.data, "name", CleanItem(rawItem)),
        lineHasValidColor |-> FALSE]
  ELSE [data |-> st.data, lineHasValidColor |-> FALSE]

\* ItemStep without `lineHasValidColor = false`: a color anywhere in the
\* first two segments keeps the line.
ItemStepNoReset(st, rawItem, index) ==
  IF index >= 2 THEN st
  ELSE IF isValid(CleanItem(rawItem))
  THEN [data |-> SetKey(st.data, "color", CleanItem(rawItem)),
        lineHasValidColor |-> TRUE]
  ELSE IF Len(CleanItem(rawItem)) > 0
  THEN [data |-> SetKey(st.data, "name", CleanItem(rawItem)),
        lineHasValidColor |-> st.lineHasValidColor]
  ELSE st

\* ItemStep with `else` in place of `else if (item.length)`: an empty
\* segment is stored as the name.
ItemStepEmptyName(st, rawItem, index) ==
  IF index >= 2 THEN st
  ELSE IF isValid(CleanItem(rawItem))
  THEN [data |-> SetKey(st.data, "color", CleanItem(rawItem)),
        lineHasValidColor |-> TRUE]
  ELSE [data |-> SetKey(st.data, "name", CleanItem(rawItem)),
        lineHasValidColor |-> FALSE]

\* One pass of the inner forEach callback on (item, index); st is the pair
\* of locals [data, lineHasValidColor].
ItemStep(st, rawItem, index) ==
  IF index >= 2 THEN st
  ELSE LET item == CleanItem(rawItem) IN
       IF isValid(item)
       THEN [data |-> SetKey(st.data, "color", item), lineHasValidColor |-> TRUE]
       ELSE IF Len(item) > 0
       THEN [data |-> SetKey(st.data, "name", item), lineHasValidColor |-> FALSE]
       ELSE [data |-> st.data, lineHasValidColor |-> FALSE]

\* lineArray.forEach(...) from index k (0-based) on.
RECURSIVE ItemLoop(_, _, _)
ItemLoop(st, lineArray, k) ==
  IF k >= Len(lineArray) THEN st
  ELSE ItemLoop(ItemStep(st, lineArray[k + 1], k), lineArray, k + 1)

\* The outer forEach callback: the entries one line adds to outputArray.
LineEntries(line) ==
  LET st == ItemLoop([data |-> <<>>, lineHasValidColor |-> FALSE],
                     Split(line, ":"), 0)
  IN IF Len(st.data) > 0 /\ st.lineHasValidColor THEN <<st.data>> ELSE <<>>

RECURSIVE LinesLoop(_)
LinesLoop(inputArray) ==
  IF inputArray = <<>> THEN <<>>
  ELSE LineEntries(inputArray[1]) \o LinesLoop(Tail(inputArray))

getInputData(string) == LinesLoop(Split(string, "\n"))

(***************************************************************************)
(* JavaScript values held by the axis variables: null, or an array of      *)
(* entries.                                                                *)
(***************************************************************************)
Null == [isNull |-> TRUE, arr |-> <<>>]

Arr(a) == [isNull |-> FALSE, arr |-> a]

\* xAxisData?.length as a condition: a non-empty array.
HasLength(v) == ~v.isNull /\ Len(v.arr) > 0

(***************************************************************************)
(* JSON.stringify and JSON.parse, on the values this program passes them:  *)
(* null and arrays of objects whose values are strings.                    *)
(***************************************************************************)

\* The body of a JSON string literal: quote and backslash are escaped.
EscapeJSON(s) ==
  Concat([i \in 1..Len(s) |->
            IF s[i] \in {"\"", "\\"} THEN <<"\\", s[i]>> ELSE <<s[i]>>])

QuoteJSON(s) == <<"\"">> \o EscapeJSON(s) \o <<"\"">>

StringifyPair(pair) == QuoteJSON(<<pair[1]>>) \o <<":">> \o QuoteJSON(pair[2])

StringifyEntry(data) ==
  <<"{">> \o Join([i \in 1..Len(data) |-> StringifyPair(data[i])], <<",">>)
          \o <<"}">>

\* JSON.stringify(value)
JSONStringify(v) ==
  IF v.isNull THEN <<"null">>
  ELSE <<"[">> \o Join([i \in 1..Len(v.arr) |-> StringifyEntry(v.arr[i])], <<",">>)
               \o <<"]">>

\* The result of JSON.parse: a value, or the SyntaxError it threw.
SyntaxError == [threw |-> TRUE, val |-> Null]

Parsed(v) == [threw |-> FALSE, val |-> v]

\* How many backslashes stand right before position i of s.
BackslashRun(s, i) ==
  IF i = 1 \/ s[i - 1] # "\\" THEN 0
  ELSE Cardinality({k \in 1..(i - 1) : \A j \in (i - k)..(i - 1) : s[j] = "\\"})

\* Position i of s follows an odd run of backslashes: inside a string
\* literal the character there is escaped.
IsEscaped(s, i) == BackslashRun(s, i) % 2 = 1

\* The quotes that open or close a string literal.
QuotePositions(s) == {i \in 1..Len(s) : s[i] = "\"" /\ ~IsEscaped(s, i)}

\* The characters a string literal body stands for; the backslash that
\* starts an escape goes, the character it escapes stays.
Unescape(body) ==
  Concat([j \in 1..Len(body) |->
            IF body[j] = "\\" /\ ~IsEscaped(body, j) THEN <<>> ELSE <<body[j]>>])

\* A string literal body the grammar accepts: no line break, and every
\* escape is \" or \\.
BodyOk(body) ==
  \A j \in 1..Len(body) :
     /\ body[j] # "\n"
     /\ (body[j] = "\\" /\ ~IsEscaped(body, j)) =>
           (j < Len(body) /\ body[j + 1] \in {"\"", "\\"})

\* The token that starts at position i of s, quotes being the positions of
\* the quotes that delimit literals: a literal with its value, a
\* punctuation character, or nothing inside a literal.
TokenAt(s, quotes, i) ==
  IF Cardinality({q \in quotes : q < i}) % 2 = 1 THEN <<>>
  ELSE IF i \notin quotes THEN <<[lit |-> FALSE, v |-> <<s[i]>>]>>
  ELSE IF \A q \in quotes : q <= i THEN <<[lit |-> FALSE, v |-> <<"unterminated">>]>>
  ELSE <<[lit |-> TRUE,
          v |-> SubSeq(s, i + 1, (CHOOSE q \in quotes :
                                    q > i /\ \A r \in quotes : r > i => q <= r) - 1)]>>

\* The tokens of the text s.
JSONTokens(s) ==
  LET quotes == QuotePositions(s) IN
  Concat([i \in 1..Len(s) |-> TokenAt(s, quotes, i)])

\* tok is the punctuation character c.
IsPunct(tok, c) == ~tok.lit /\ tok.v = <<c>>

\* tok is a string literal the grammar accepts.
IsString(tok) == tok.lit /\ BodyOk(tok.v)

\* The parser after the "[" of a non-empty array, over the tokens toks.
\* mode is what it expects next; key is the last key read, data the object
\* being built (a repeated key keeps its first position and takes the last
\* value) and arr the elements read so far.  A key is one atom.
RECURSIVE JSONScan(_, _, _, _, _)
JSONScan(mode, toks, key, data, arr) ==
  CASE mode = "end" ->
         IF toks = <<>> THEN Parsed(Arr(arr)) ELSE SyntaxError
    [] mode # "end" /\ toks = <<>> -> SyntaxError
    [] mode = "element" /\ toks # <<>> ->
         IF ~IsPunct(toks[1], "{") THEN SyntaxError
         ELSE IF Len(toks) >= 2 /\ IsPunct(toks[2], "}")
         THEN JSONScan("afterElement", SubSeq(toks, 3, Len(toks)), key, <<>>,
                       Append(arr, <<>>))
         ELSE JSONScan("key", Tail(toks), key, <<>>, arr)
    [] mode = "key" /\ toks # <<>> ->
         IF IsString(toks[1]) /\ Len(Unescape(toks[1].v)) = 1
         THEN JSONScan("colon", Tail(toks), Unescape(toks[1].v)[1], data, arr)
         ELSE SyntaxError
    [] mode = "colon" /\ toks # <<>> ->
         IF IsPunct(toks[1], ":") THEN JSONScan("value", Tail(toks), key, data, arr)
         ELSE SyntaxError
    [] mode = "value" /\ toks # <<>> ->
         IF IsString(toks[1])
         THEN JSONScan("afterMember", Tail(toks), key,
                       SetKey(data, key, Unescape(toks[1].v)), arr)
         ELSE SyntaxError
    [] mode = "afterMember" /\ toks # <<>> ->
         IF IsPunct(toks[1], ",") THEN JSONScan("key", Tail(toks), key, data, arr)
         ELSE IF IsPunct(toks[1], "}")
         THEN JSONScan("afterElement", Tail(toks), key, <<>>, Append(arr, data))
         ELSE SyntaxError
    [] mode = "afterElement" /\ toks # <<>> ->
         IF IsPunct(toks[1], ",") THEN JSONScan("element", Tail(toks), key, <<>>, arr)
         ELSE IF IsPunct(toks[1], "]") THEN JSONScan("end", Tail(toks), key, <<>>, arr)
         ELSE SyntaxError

\* JSON.parse on the tokens of an array.
ParseArrayTokens(toks) ==
  IF toks = <<>> \/ ~IsPunct(toks[1], "[") THEN SyntaxError
  ELSE IF Len(toks) >= 2 /\ IsPunct(toks[2], "]")
  THEN JSONScan("end", SubSeq(toks, 3, Len(toks)), "", <<>>, <<>>)
  ELSE JSONScan("element", Tail(toks), "", <<>>, <<>>)

\* JSON.parse(text)
JSONParse(s) ==
  IF s = <<"null">> THEN Parsed(Null) ELSE ParseArrayTokens(JSONTokens(s))

(***************************************************************************)
(* Percent-encoding.  PercentCodes pairs each punctuation atom with the    *)
(* two hex digits of its code; letters and digits are never encoded.       *)
(***************************************************************************)
PercentCodes ==
  { <<" ", "20">>, <<"!", "21">>, <<"\"", "22">>, <<"#", "23">>,
    <<"%", "25">>, <<"&", "26">>, <<"+", "2B">>, <<",", "2C">>,
    <<":", "3A">>, <<";", "3B">>, <<"=", "3D">>, <<"?", "3F">>,
    <<"[", "5B">>, <<"\\", "5C">>, <<"]", "5D">>, <<"{", "7B">>,
    <<"}", "7D">>, <<"\n", "0A">> }

HasCode(a) == \E p \in PercentCodes : p[1] = a

CodeOf(a) == (CHOOSE p \in PercentCodes : p[1] = a)[2]

IsHex(h) == \E p \in PercentCodes : p[2] = h

CharOf(h) == (CHOOSE p \in PercentCodes : p[2] = h)[1]

\* Punctuation encodeURIComponent leaves alone: - _ . ! ~ * ' ( )
URIUnreservedMarks == {"!"}

\* encodeURIComponent(string)
encodeURIComponent(s) ==
  Concat([i \in 1..Len(s) |->
            IF HasCode(s[i]) /\ s[i] \notin URIUnreservedMarks
            THEN <<"%", CodeOf(s[i])>> ELSE <<s[i]>>])

\* Position i of s is a "%" that two hex digits follow.
IsEscape(s, i) == s[i] = "%" /\ i < Len(s) /\ IsHex(s[i + 1])

\* What position i of s contributes to the decoded string: the character
\* of an escape at its "%", nothing at its hex digits, itself otherwise.
DecodeAt(s, i) ==
  IF IsEscape(s, i) THEN <<CharOf(s[i + 1])>>
  ELSE IF i > 1 /\ IsEscape(s, i - 1) THEN <<>>
  ELSE <<s[i]>>

\* decodeURIComponent(string): [threw, val]; threw is the URIError raised
\* for a "%" that two hex digits do not follow.
decodeURIComponent(s) ==
  IF \E i \in 1..Len(s) : s[i] = "%" /\ ~IsEscape(s, i)
  THEN [threw |-> TRUE, val |-> <<>>]
  ELSE [threw |-> FALSE, val |-> Concat([i \in 1..Len(s) |-> DecodeAt(s, i)])]

(***************************************************************************)
(* URLSearchParams (application/x-www-form-urlencoded).  A parameter list  *)
(* is a sequence of <<name, value>> pairs of strings.                      *)
(***************************************************************************)

\* The serializer's byte encoding: space becomes "+", every punctuation
\* character other than * - . _ is percent-encoded.
FormEncode(s) ==
  Concat([i \in 1..Len(s) |->
            IF s[i] = " " THEN <<"+">>
            ELSE IF HasCode(s[i]) THEN <<"%", CodeOf(s[i])>>
            ELSE <<s[i]>>])

\* The parser's decoding: "+" becomes space, "%XX" its character, and a
\* "%" that no two hex digits follow stays as it is.
FormDecode(s) ==
  Concat([i \in 1..Len(s) |->
            IF s[i] = "+" THEN <<" ">> ELSE DecodeAt(s, i)])

\* One "name=value" piece of a query string.
ParseParam(piece) ==
  LET parts == Split(piece, "=") IN
  <<FormDecode(parts[1]), FormDecode(Join(Tail(parts), <<"=">>))>>

RECURSIVE ParseParams(_)
ParseParams(pieces) ==
  IF pieces = <<>> THEN <<>>
  ELSE (IF pieces[1] = <<>> THEN <<>> ELSE <<ParseParam(pieces[1])>>)
       \o ParseParams(Tail(pieces))

\* new URLSearchParams(location.search)
URLSearchParams(search) ==
  ParseParams(Split(IF search # <<>> /\ search[1] = "?" THEN Tail(search)
                    ELSE search, "&"))

\* urlParams.get(name): [isNull, str], null when no parameter has the name.
ParamsGet(params, name) ==
  IF \E i \in 1..Len(params) : params[i][1] = name
  THEN [isNull |-> FALSE,
        str |-> params[CHOOSE i \in 1..Len(params) :
                   params[i][1] = name
                   /\ \A j \in 1..(i - 1) : params[j][1] # name][2]]
  ELSE [isNull |-> TRUE, str |-> <<>>]

\* urlParams.delete(name): every parameter of that name goes.
RECURSIVE ParamsDelete(_, _)
ParamsDelete(params, name) ==
  IF params = <<>> THEN <<>>
  ELSE (IF params[1][1] = name THEN <<>> ELSE <<params[1]>>)
       \o ParamsDelete(Tail(params), name)

\* urlParams.set(name, value): the first parameter of that name takes the
\* value and the others go; without one, the pair is appended.
ParamsSet(params, name, value) ==
  IF \E i \in 1..Len(params) : params[i][1] = name
  THEN LET i == CHOOSE k \in 1..Len(params) :
                  params[k][1] = name /\ \A j \in 1..(k - 1) : params[j][1] # name
       IN SubSeq(params, 1, i - 1) \o <<<<name, value>>>>
          \o ParamsDelete(SubSeq(params, i + 1, Len(params)), name)
  ELSE Append(params, <<name, value>>)

\* `${urlParams}`: URLSearchParams.prototype.toString()
ParamsToString(params) ==
  Join([i \in 1..Len(params) |->
          FormEncode(params[i][1]) \o <<"=">> \o FormEncode(params[i][2])],
       <<"&">>)

(***************************************************************************)
(* The state of the page.                                                  *)
(***************************************************************************)
VARIABLES
  search,     \* location.search
  history,    \* the session history entries of this document (their query strings)
  idx,        \* the position of the current entry in history
  xInput,     \* value of textarea .color-input-x
  yInput,     \* value of textarea .color-input-y
  table,      \* content of .table-container
  listeners,  \* init has registered the event listeners
  uncaught,   \* the last handler of the form or the history ended with an
              \* uncaught exception
  last,       \* the last operation on the form or the history, and the axes
              \* it passed to writeTableToDOM
  contrast,   \* value of the range input `contrast`, in hundredths
  contrastValueLabel,  \* textContent of the range label, in hundredths
  axes,       \* codec check: the pair of axes handed to setQueryParams
  readBack,    \* codec check: the axes read back from the URL
  text,       \* parser check: the argument of getInputData
  output,     \* parser check: the array getInputData returned
  step        \* which check runs and how far it is

pageVars == <<search, history, idx, xInput, yInput, table, listeners, uncaught, last,
              contrast, contrastValueLabel>>

\* The variables of the codec and parser checks, which the page leaves alone.
pureVars == <<axes, readBack, text, output, step>>

vars == <<pageVars, pureVars>>

\* Pushes allowed per session in the model.
MaxHistory == 3

\* Texts the user types into a textarea: whitespace only, a named color
\* and a color on two lines, and a line that holds no color.
TextInputs ==
  { <<" ">>,
    <<"N", ":", " ", "tan", "\n", "red">>,
    <<"N">> }

\* .table-container before any table is written.
NoTable == [written |-> FALSE, header |-> <<>>, rows |-> <<>>]

\* No writeTableToDOM call was made by the operation op.
NoCall(op) == [op |-> op, called |-> FALSE, x |-> Null, y |-> Null]

Call(op, x, y) == [op |-> op, called |-> TRUE, x |-> x, y |-> y]

(***************************************************************************)
(* setQueryParams and getDataFromQueryParams                               *)
(***************************************************************************)

\* QueryString without the else branch: a yAxisData parameter already in
\* the URL stays when the axes are identical.
QueryStringKeepY(loc, xAxisData, yAxisData) ==
  LET urlParams == URLSearchParams(loc)
      withX == ParamsSet(urlParams, <<"xAxisData">>,
                         encodeURIComponent(JSONStringify(xAxisData)))
  IN <<"?">> \o ParamsToString(
       IF JSONStringify(xAxisData) # JSONStringify(yAxisData)
       THEN ParamsSet(withX, <<"yAxisData">>,
                      encodeURIComponent(JSONStringify(yAxisData)))
       ELSE withX)

\* The query string setQueryParams builds from location.search for a
\* non-empty xAxisData: "?" and `${urlParams}`.
QueryString(loc, xAxisData, yAxisData) ==
  LET urlParams == URLSearchParams(loc)
      withX == ParamsSet(urlParams, <<"xAxisData">>,
                         encodeURIComponent(JSONStringify(xAxisData)))
      withY == IF JSONStringify(xAxisData) # JSONStringify(yAxisData)
               THEN ParamsSet(withX, <<"yAxisData">>,
                              encodeURIComponent(JSONStringify(yAxisData)))
               ELSE ParamsDelete(withX, <<"yAxisData">>)
  IN <<"?">> \o ParamsToString(withY)

\* pushState mistaken for replaceState: the current entry is overwritten.
replaceState(url) ==
  /\ search' = url
  /\ history' = [history EXCEPT ![idx] = url]
  /\ idx' = idx

\* window.history.pushState({}, '', url): the entries after the current one
\* go, the new one is appended and becomes current.
pushState(url) ==
  /\ search' = url
  /\ history' = Append(SubSeq(history, 1, idx), url)
  /\ idx' = idx + 1

\* setQueryParams without the `xAxisData?.length` guard.
setQueryParamsUnguarded(xAxisData, yAxisData) ==
  pushState(QueryString(search, xAxisData, yAxisData))

setQueryParams(xAxisData, yAxisData) ==
  IF HasLength(xAxisData)
  THEN pushState(QueryString(search, xAxisData, yAxisData))
  ELSE UNCHANGED <<search, history, idx>>

\* DecodeParam reading an absent parameter as the empty string, which
\* JSON.parse rejects.
DecodeParamEmptyOnNull(raw) ==
  IF raw.isNull THEN [threw |-> FALSE, val |-> <<>>]
  ELSE decodeURIComponent(raw.str)

\* decodeURIComponent(raw) for raw = urlParams.get(axis); null is
\* converted to the string "null".
DecodeParam(raw) ==
  IF raw.isNull THEN [threw |-> FALSE, val |-> <<"null">>]
  ELSE decodeURIComponent(raw.str)

\* JSON.parse(decoded), unless decodeURIComponent threw already.
ParseDecoded(decoded) ==
  IF decoded.threw THEN [threw |-> TRUE, val |-> Null]
  ELSE JSONParse(decoded.val)

\* JSON.parse(decodeURIComponent(urlParams.get(axis))): [threw, val]
AxisFromParams(urlParams, axis) ==
  ParseDecoded(DecodeParam(ParamsGet(urlParams, <<axis>>)))

\* colorsObject after the forEach over both axes, or the exception that
\* ended it.
ColorsObject(x, y) ==
  [threw |-> x.threw \/ y.threw, xAxisData |-> x.val, yAxisData |-> y.val]

\* getDataFromQueryParams() when location.search is loc.
getDataFromQueryParams(loc) ==
  ColorsObject(AxisFromParams(URLSearchParams(loc), "xAxisData"),
               AxisFromParams(URLSearchParams(loc), "yAxisData"))

\* YOrX without the fallback to xAxisData.
YOrXNoDefault(dataFromParams) == dataFromParams.yAxisData

\* dataFromParams.yAxisData ? dataFromParams.yAxisData : xAxisData
\* (null is falsy, every array is truthy)
YOrX(dataFromParams) ==
  IF dataFromParams.yAxisData.isNull THEN dataFromParams.xAxisData
  ELSE dataFromParams.yAxisData

(***************************************************************************)
(* buildTable                                                              *)
(***************************************************************************)

\* tinycolor's reading of a color string: "#fff" and "fff" are one color.
ColorOf(c) == IF c = <<"#", "fff">> THEN <<"fff">> ELSE c

\* tinycolor.readability(color1, color2), the WCAG contrast ratio, in
\* thousandths (red on white is 3.9984..., tan on white 1.9722..., red on
\* tan 2.0273...).
readability(color1, color2) ==
  CASE ColorOf(color1) = ColorOf(color2) -> 1000
    [] {ColorOf(color1), ColorOf(color2)} = {<<"red">>, <<"fff">>} -> 3998
    [] {ColorOf(color1), ColorOf(color2)} = {<<"tan">>, <<"fff">>} -> 1972
    [] {ColorOf(color1), ColorOf(color2)} = {<<"red">>, <<"tan">>} -> 2027

\* ratio.toFixed(2): the ratio rounded to two decimals, in hundredths (the
\* number the cell's text reads as).
toFixed2(ratio) == (ratio + 5) \div 10

\* One <td>: the pair of colors whose readability it shows.
buildTableTds(xAxisData, compareColor) ==
  [i \in 1..Len(xAxisData) |->
     [color1 |-> GetKey(xAxisData[i], "color"),
      color2 |-> compareColor,
      textContent |-> toFixed2(readability(GetKey(xAxisData[i], "color"),
                                           compareColor)),
      doesNotMeet |-> FALSE]]

\* buildDataRows with the axes exchanged: one row per entry of the X axis.
buildDataRowsTransposed(xAxisData, yAxisData) ==
  [j \in 1..Len(xAxisData) |->
     [th |-> xAxisData[j],
      tds |-> buildTableTds(yAxisData, GetKey(xAxisData[j], "color"))]]

\* One <tr> per entry of the Y axis: its row header and its cells.
buildDataRows(xAxisData, yAxisData) ==
  [j \in 1..Len(yAxisData) |->
     [th |-> yAxisData[j],
      tds |-> buildTableTds(xAxisData, GetKey(yAxisData[j], "color"))]]

\* The column headers.
buildHeaderRow(xAxisData) == [i \in 1..Len(xAxisData) |-> xAxisData[i]]

buildTable(xAxisData, yAxisData) ==
  [written |-> TRUE,
   header |-> buildHeaderRow(xAxisData),
   rows |-> buildDataRows(xAxisData, yAxisData)]

(***************************************************************************)
(* hydrateForm and writeTableToDOM                                         *)
(***************************************************************************)

\* `${('name' in data) ? data.name + ': ' : ''} ${data.color}`
HydrateLine(data) ==
  (IF HasKey(data, "name") THEN GetKey(data, "name") \o <<":", " ">> ELSE <<>>)
  \o <<" ">> \o GetKey(data, "color")

\* axisData.map(...).join('\n')
HydrateText(axisData) ==
  Join([i \in 1..Len(axisData) |-> HydrateLine(axisData[i])], <<"\n">>)

\* hydrateForm(form, xAxisData, yAxisData) on fields holding xValue and
\* yValue: the two fields afterwards, and whether it threw (yAxisData.map
\* on null, after the X field was assigned).
hydrateForm(xValue, yValue, xAxisData, yAxisData) ==
  [threw |-> JSONStringify(xAxisData) # JSONStringify(yAxisData)
             /\ yAxisData.isNull,
   xInput |-> IF ~xAxisData.isNull THEN HydrateText(xAxisData.arr) ELSE xValue,
   yInput |-> IF JSONStringify(xAxisData) # JSONStringify(yAxisData)
                 /\ ~yAxisData.isNull
              THEN HydrateText(yAxisData.arr) ELSE yValue]

\* The first statement of writeTableToDOM: .table-container afterwards.
\* Every caller passes an array for yAxisData when xAxisData has entries.
TableAfter(container, xAxisData, yAxisData) ==
  IF HasLength(xAxisData) THEN buildTable(xAxisData.arr, yAxisData.arr)
  ELSE container

\* writeTableToDOM without setCellContrast: the cells just written keep no
\* flag.
WrittenTableUnflagged(container, xAxisData, yAxisData, value) ==
  TableAfter(container, xAxisData, yAxisData)

\* setCellContrast(contrast) on the cells of container: parseFloat of the
\* cell's text is compared with the threshold.  (The empty corner <td> of
\* the header row reads as NaN and is never flagged.)
setCellContrast(container, value) ==
  [container EXCEPT !.rows =
     [j \in 1..Len(container.rows) |->
        [container.rows[j] EXCEPT !.tds =
           [i \in 1..Len(container.rows[j].tds) |->
              [container.rows[j].tds[i] EXCEPT !.doesNotMeet =
                 container.rows[j].tds[i].textContent < value]]]]]

\* The first two statements of writeTableToDOM: .table-container after
\* the write and setCellContrast(contrast.value).
WrittenTable(container, xAxisData, yAxisData, value) ==
  setCellContrast(TableAfter(container, xAxisData, yAxisData), value)

\* writeTableToDOM(xAxisData, yAxisData) with updateQueryParams = true.
writeTableToDOM(xAxisData, yAxisData) ==
  /\ table' = WrittenTable(table, xAxisData, yAxisData, contrast)
  /\ setQueryParams(xAxisData, yAxisData)

(***************************************************************************)
(* The handlers.                                                           *)
(***************************************************************************)

\* The last two statements of init() and handlePopstate(), after
\* hydrateForm returned form: writeTableToDOM(xAxisData, yAxisData, false),
\* which leaves the URL alone.  The result holds the fields and the table
\* afterwards, whether an exception ended the handler, and the call made.
AfterHydrate(op, form, xAxisData, yAxisData, container) ==
  IF form.threw
  THEN [threw |-> TRUE, xInput |-> form.xInput, yInput |-> form.yInput,
        table |-> container, last |-> NoCall(op)]
  ELSE [threw |-> FALSE, xInput |-> form.xInput, yInput |-> form.yInput,
        table |-> WrittenTable(container, xAxisData, yAxisData, contrast),
        last |-> Call(op, xAxisData, yAxisData)]

\* The statements init() and handlePopstate() share once dataFromParams is
\* there: choose the axes, hydrate the form, write the table.
LoadFromData(op, dataFromParams, xValue, yValue, container) ==
  IF dataFromParams.threw
  THEN [threw |-> TRUE, xInput |-> xValue, yInput |-> yValue,
        table |-> container, last |-> NoCall(op)]
  ELSE AfterHydrate(op,
                    hydrateForm(xValue, yValue, dataFromParams.xAxisData,
                                YOrX(dataFromParams)),
                    dataFromParams.xAxisData, YOrX(dataFromParams), container)

\* handlePopstate(), and init() but for its addEventListener calls, when
\* location.search is loc.
LoadFromURL(op, loc, xValue, yValue, container) ==
  LoadFromData(op, getDataFromQueryParams(loc), xValue, yValue, container)

\* The page after a handler that ended as r.
Loaded(r) ==
  /\ uncaught' = r.threw
  /\ xInput' = r.xInput
  /\ yInput' = r.yInput
  /\ table' = r.table
  /\ last' = r.last

\* init(): getDataFromQueryParams runs before the addEventListener calls,
\* so an exception in it leaves no listener registered; hydrateForm runs
\* after them.
init ==
  /\ last.op = "load"
  /\ listeners' = ~getDataFromQueryParams(search).threw
  /\ Loaded(LoadFromURL("init", search, xInput, yInput, table))
  /\ UNCHANGED <<search, history, idx>>
  /\ UNCHANGED <<contrast, contrastValueLabel>>
  /\ UNCHANGED pureVars

\* The user goes back (d = -1) or forward (d = 1) in the session history:
\* the browser makes that entry current and fires popstate, which runs
\* handlePopstate() when init registered it.
Traverse(d) ==
  /\ last.op # "load"
  /\ idx + d \in 1..Len(history)
  /\ idx' = idx + d
  /\ search' = history[idx + d]
  /\ UNCHANGED <<history, listeners>>
  /\ UNCHANGED <<contrast, contrastValueLabel>>
  /\ UNCHANGED pureVars
  /\ IF listeners
     THEN Loaded(LoadFromURL("popstate", history[idx + d], xInput, yInput, table))
     ELSE /\ last' = NoCall("none")
          /\ UNCHANGED <<uncaught, xInput, yInput, table>>

Back == Traverse(-1)

Forward == Traverse(1)

\* handleSubmit(e)
handleSubmit ==
  /\ listeners
  /\ LET xAxisData == Arr(getInputData(xInput))
         yAxisData == IF Len(Trim(yInput)) > 0 THEN Arr(getInputData(yInput))
                      ELSE Arr(getInputData(xInput))
     IN /\ HasLength(xAxisData) => idx < MaxHistory
        /\ writeTableToDOM(xAxisData, yAxisData)
        /\ last' = Call("submit", xAxisData, yAxisData)
  /\ uncaught' = FALSE
  /\ UNCHANGED <<xInput, yInput, listeners>>
  /\ UNCHANGED <<contrast, contrastValueLabel>>
  /\ UNCHANGED pureVars

\* reverseInputData computing the axes before it exchanges the fields.
reverseInputDataStaleAxes ==
  /\ listeners
  /\ uncaught' = FALSE
  /\ UNCHANGED listeners
  /\ UNCHANGED <<contrast, contrastValueLabel>>
  /\ UNCHANGED pureVars
  /\ IF Len(Trim(yInput)) = 0
     THEN /\ last' = NoCall("reverse")
          /\ UNCHANGED <<xInput, yInput, table, search, history, idx>>
     ELSE /\ Arr(getInputData(xInput)).arr # <<>> => idx < MaxHistory
          /\ xInput' = yInput
          /\ yInput' = xInput
          /\ writeTableToDOM(Arr(getInputData(xInput)), Arr(getInputData(yInput)))
          /\ last' = Call("reverse", Arr(getInputData(xInput)),
                          Arr(getInputData(yInput)))

\* reverseInputData without its early return.
reverseInputDataAlways ==
  /\ listeners
  /\ uncaught' = FALSE
  /\ UNCHANGED listeners
  /\ UNCHANGED <<contrast, contrastValueLabel>>
  /\ UNCHANGED pureVars
  /\ Arr(getInputData(yInput)).arr # <<>> => idx < MaxHistory
  /\ xInput' = yInput
  /\ yInput' = xInput
  /\ writeTableToDOM(Arr(getInputData(yInput)), Arr(getInputData(xInput)))
  /\ last' = Call("reverse", Arr(getInputData(yInput)), Arr(getInputData(xInput)))

\* reverseInputData()
reverseInputData ==
  /\ listeners
  /\ uncaught' = FALSE
  /\ UNCHANGED listeners
  /\ UNCHANGED <<contrast, contrastValueLabel>>
  /\ UNCHANGED pureVars
  /\ IF Len(Trim(yInput)) = 0
     THEN /\ last' = NoCall("reverse")
          /\ UNCHANGED <<xInput, yInput, table, search, history, idx>>
     ELSE LET xAxisData == Arr(getInputData(yInput))
              yAxisData == Arr(getInputData(xInput))
          IN /\ HasLength(xAxisData) => idx < MaxHistory
             /\ xInput' = yInput
             /\ yInput' = xInput
             /\ writeTableToDOM(xAxisData, yAxisData)
             /\ last' = Call("reverse", xAxisData, yAxisData)

\* The user replaces the text of the X or of the Y textarea.
EditX(t) ==
  /\ last.op # "load"
  /\ xInput' = t
  /\ last' = NoCall("edit")
  /\ UNCHANGED <<yInput, table, search, history, idx, listeners, uncaught>>
  /\ UNCHANGED <<contrast, contrastValueLabel>>
  /\ UNCHANGED pureVars

EditY(t) ==
  /\ last.op # "load"
  /\ yInput' = t
  /\ last' = NoCall("edit")
  /\ UNCHANGED <<xInput, table, search, history, idx, listeners, uncaught>>
  /\ UNCHANGED <<contrast, contrastValueLabel>>
  /\ UNCHANGED pureVars

(***************************************************************************)
\* The user moves the range input to value and lets go: the browser sets
\* contrast.value and fires change, which runs handleRangeChange().
handleRangeChange(value) ==
  /\ listeners
  /\ contrast' = value
  /\ contrastValueLabel' = value
  /\ table' = setCellContrast(table, value)
  /\ UNCHANGED <<search, history, idx, xInput, yInput, listeners, uncaught, last>>
  /\ UNCHANGED pureVars

\* The range input loses focus: handleRangeBlur(e), e.target being the
\* range input.
handleRangeBlur ==
  /\ listeners
  /\ contrastValueLabel' = contrast
  /\ table' = setCellContrast(table, contrast)
  /\ UNCHANGED <<search, history, idx, xInput, yInput, listeners, uncaught, last,
                 contrast>>
  /\ UNCHANGED pureVars

\* handleContrastButtonClick(e) on the button whose data-value is value.
handleContrastButtonClick(value) ==
  /\ listeners
  /\ contrast' = value
  /\ contrastValueLabel' = value
  /\ table' = setCellContrast(table, value)
  /\ UNCHANGED <<search, history, idx, xInput, yInput, listeners, uncaught, last>>
  /\ UNCHANGED pureVars

(* The page: loaded from a link, then driven by the user.                  *)
(***************************************************************************)

\* Axes of the links the page is opened from.
LinkX == Arr(<< << <<"name", <<"N">>>>, <<"color", <<"tan">>>> >>,
                << <<"color", <<"red">>>> >> >>)

LinkY == Arr(<< <<<<"color", <<"fff">>>>>> >>)

\* location.search when the document loads: no query, a link
\* setQueryParams made, and two links whose xAxisData is damaged: cut short
\* ("[") and "%" alone.
InitialSearches ==
  { <<>>,
    QueryString(<<>>, LinkX, LinkY),
    <<"?", "xAxisData", "=", "%", "5B">>,
    <<"?", "xAxisData", "=", "%", "25">> }

\* The axes read back before anything was decoded.
NoDecode == [threw |-> FALSE, x |-> Null, y |-> Null]

\* Values of the range input (4 and 4.5) and of the preset buttons (4.5).
RangeValues == {400, 450}

ButtonValues == {450}

\* The document as the browser hands it to the script, opened at loc.
PageAt(loc) ==
  /\ contrast \in RangeValues
  /\ contrastValueLabel = contrast
  /\ search = loc
  /\ history = <<loc>>
  /\ idx = 1
  /\ xInput = <<>>
  /\ yInput = <<>>
  /\ table = NoTable
  /\ listeners = FALSE
  /\ uncaught = FALSE
  /\ last = NoCall("load")

Init ==
  /\ \E loc \in InitialSearches : PageAt(loc)
  /\ axes = [x |-> <<>>, y |-> <<>>]
  /\ readBack = NoDecode
  /\ text = <<>>
  /\ output = <<>>
  /\ step = "page"

Next ==
  \/ init
  \/ handleSubmit
  \/ reverseInputData
  \/ Back
  \/ Forward
  \/ \E t \in TextInputs : EditX(t)
  \/ \E t \in TextInputs : EditY(t)
  \/ \E value \in RangeValues : handleRangeChange(value)
  \/ handleRangeBlur
  \/ \E value \in ButtonValues : handleContrastButtonClick(value)

Spec == Init /\ [][Next]_vars

(***************************************************************************)
(* The codec on its own: setQueryParams on a pair of axes, then the        *)
(* decoding init() and handlePopstate() do.                                *)
(***************************************************************************)

\* Longest axis of the codec check.
MaxAxisLen == 2

\* Entries of the axes: a bare color; a name holding a quote and "%25"; an
\* entry whose keys were inserted color first, its name holding the
\* characters a query string gives a meaning to.
CodecEntries ==
  { << <<"color", <<"red">>>> >>,
    << <<"name", <<"N", "\"", "%", "25">>>>, <<"color", <<"#", "fff">>>> >>,
    << <<"color", <<"tan">>>>, <<"name", <<"&", "=", "+", " ", "\\", "!">>>> >> }

CodecAxes == UNION { [1..n -> CodecEntries] : n \in 0..MaxAxisLen }

\* location.search before the call: no query, the query of an earlier
\* encode with both axes, and a hand-written one with a foreign parameter
\* and yAxisData twice.
PriorSearches ==
  { <<>>,
    QueryString(<<>>, LinkX, LinkY),
    <<"?", "yAxisData", "=", "old", "&", "ref", "=", "N", "&",
      "yAxisData", "=", "old">> }

\* xAxisData and yAxisData as init() and handlePopstate() take them from
\* dataFromParams.
DecodedAxes(dataFromParams) ==
  [threw |-> dataFromParams.threw,
   x |-> dataFromParams.xAxisData,
   y |-> YOrX(dataFromParams)]

InitCodec ==
  /\ \E loc \in PriorSearches : PageAt(loc)
  /\ axes \in [x : CodecAxes, y : CodecAxes]
  /\ readBack = NoDecode
  /\ text = <<>>
  /\ output = <<>>
  /\ step = "input"

CodecEncode ==
  /\ step = "input"
  /\ setQueryParams(Arr(axes.x), Arr(axes.y))
  /\ step' = "encoded"
  /\ UNCHANGED <<xInput, yInput, table, listeners, uncaught, last>>
  /\ UNCHANGED <<contrast, contrastValueLabel>>
  /\ UNCHANGED <<axes, readBack, text, output>>

CodecDecode ==
  /\ step = "encoded"
  /\ readBack' = DecodedAxes(getDataFromQueryParams(search))
  /\ step' = "decoded"
  /\ UNCHANGED pageVars
  /\ UNCHANGED <<axes, text, output>>

NextCodec == CodecEncode \/ CodecDecode

SpecCodec == InitCodec /\ [][NextCodec]_vars

(***************************************************************************)
(* The parser on its own: getInputData on every text up to a length.       *)
(***************************************************************************)

\* Longest text of the parser check, in atoms.
MaxTextLen == 5

\* Two colors, a word that is no color, and the characters getInputData
\* gives a meaning to.
ParseAlphabet == {"red", "tan", "N", ":", ";", ",", " ", "\n"}

ParseTexts == UNION { [1..n -> ParseAlphabet] : n \in 0..MaxTextLen }

InitParse ==
  /\ PageAt(<<>>)
  /\ axes = [x |-> <<>>, y |-> <<>>]
  /\ readBack = NoDecode
  /\ text \in ParseTexts
  /\ output = <<>>
  /\ step = "input"

Parse ==
  /\ step = "input"
  /\ output' = getInputData(text)
  /\ step' = "parsed"
  /\ UNCHANGED pageVars
  /\ UNCHANGED <<axes, readBack, text>>

NextParse == Parse

SpecParse == InitParse /\ [][NextParse]_vars

(***************************************************************************)
(* Properties.                                                             *)
(***************************************************************************)

\* The atom a occurs in the string s.
HasAtom(s, a) == \E i \in 1..Len(s) : s[i] = a

\* C1: round trip of the URL state.  For axes (x, y) with x non-empty,
\* setQueryParams(x, y) followed by the decoding of init/handlePopstate
\* gives back (x, y) when x and y differ (y may be empty) and (x, x) when
\* they are identical, without an exception.
C1_RoundTrip ==
  (step = "decoded" /\ axes.x # <<>>) =>
     /\ ~readBack.threw
     /\ readBack.x = Arr(axes.x)
     /\ readBack.y = Arr(IF axes.x # axes.y THEN axes.y ELSE axes.x)

\* C1 witness: identical two-entry axes were encoded over a URL that held
\* a yAxisData parameter, and decoding rebuilt Y from X.
C1_Witness ==
  /\ step = "decoded"
  /\ Len(axes.x) = 2
  /\ axes.x = axes.y
  /\ HasAtom(history[1], "yAxisData")
  /\ readBack.y = Arr(axes.x)

\* C3: URL compaction.  Right after setQueryParams(x, y) with x non-empty
\* the URL holds a yAxisData parameter exactly when x and y differ; one
\* left by an earlier encode is gone when they are identical.
C3_Compaction ==
  (step \in {"encoded", "decoded"} /\ axes.x # <<>>) =>
     (HasAtom(search, "yAxisData") <=> axes.x # axes.y)

\* C3 witness: identical axes were encoded over a URL that held yAxisData,
\* and the new URL holds none.
C3_Witness ==
  /\ step = "encoded"
  /\ axes.x # <<>>
  /\ axes.x = axes.y
  /\ HasAtom(history[1], "yAxisData")
  /\ ~HasAtom(search, "yAxisData")

\* The segment of a line that the inner loop processes last: the second
\* ':'-delimited segment when there are two or more, else the only one.
LastProcessed(line) ==
  IF Len(Split(line, ":")) >= 2 THEN Split(line, ":")[2]
  ELSE Split(line, ":")[1]

\* The line's last processed segment is a valid color after cleanup.
Qualifies(line) == isValid(CleanItem(LastProcessed(line)))

\* C5: parser inclusion rule and ordering.  The output of getInputData has
\* exactly one entry per line whose last processed segment is a valid
\* color after cleanup and none for any other line; the k-th entry carries
\* the color of the k-th such line, so line order is kept and repeated
\* lines give repeated entries.
C5_InclusionAndOrder ==
  step = "parsed" =>
    /\ Len(output) = Len(SelectSeq(Split(text, "\n"), Qualifies))
    /\ \A k \in 1..Len(output) :
         /\ HasKey(output[k], "color")
         /\ GetKey(output[k], "color") =
              CleanItem(LastProcessed(SelectSeq(Split(text, "\n"), Qualifies)[k]))

\* C5 witness: three lines were parsed, the middle one without a color and
\* the outer two identical; the output repeats the entry and skips the
\* middle line.
C5_Witness ==
  /\ step = "parsed"
  /\ text = <<"red", "\n", "N", "\n", "red">>
  /\ output = << << <<"color", <<"red">>>> >>, << <<"color", <<"red">>>> >> >>

\* The text is one line of exactly two ':'-delimited segments.
TwoSegmentLine ==
  /\ ~HasAtom(text, "\n")
  /\ Len(Split(text, ":")) = 2

\* Segment i (1-based) of the one-line text, after cleanup.
Segment(i) == CleanItem(Split(text, ":")[i])

\* Segment c is a valid color and segment n a non-empty non-color.
ColorAndName(c, n) ==
  /\ isValid(Segment(c))
  /\ ~isValid(Segment(n))
  /\ Len(Segment(n)) > 0

\* The output is the single entry {color: segment c, name: segment n}.
OneNamedEntry(c, n) ==
  /\ Len(output) = 1
  /\ Len(output[1]) = 2
  /\ HasKey(output[1], "color") /\ GetKey(output[1], "color") = Segment(c)
  /\ HasKey(output[1], "name") /\ GetKey(output[1], "name") = Segment(n)

\* C6 as stated: a two-segment line with a valid color C and a non-empty
\* non-color N yields the entry {color: C, name: N} in either order.
C6_OrderByValidity ==
  (step = "parsed" /\ TwoSegmentLine) =>
    /\ ColorAndName(2, 1) => OneNamedEntry(2, 1)
    /\ ColorAndName(1, 2) => OneNamedEntry(1, 2)

\* C6: name/color order.  A two-segment line written 'N: C' yields the
\* single entry {color: C, name: N}; the same line written 'C: N' yields
\* no entry at all.
C6_NameThenColorOnly ==
  (step = "parsed" /\ TwoSegmentLine) =>
    /\ ColorAndName(2, 1) => OneNamedEntry(2, 1)
    /\ ColorAndName(1, 2) => output = <<>>

\* C6 witness: the line 'red: N' was parsed and gave no entry.
C6_Witness ==
  /\ step = "parsed"
  /\ text = <<"red", ":", " ", "N">>
  /\ output = <<>>

\* The URL holds an xAxisData or yAxisData parameter that does not decode.
MalformedState(loc) ==
  /\ HasAtom(loc, "xAxisData") \/ HasAtom(loc, "yAxisData")
  /\ getDataFromQueryParams(loc).threw

\* C4: malformed persisted state does not crash the page.  With an
\* xAxisData or yAxisData parameter that is not percent-encoded JSON, init
\* and handlePopstate end without an uncaught exception, write nothing for
\* that axis, and init has registered the listeners.
C4_MalformedStateTolerated ==
  (last.op \in {"init", "popstate"} /\ MalformedState(search)) =>
     /\ ~uncaught
     /\ listeners
     /\ table = NoTable

\* The axes of the URL loc as init/handlePopstate read them.
AxesOf(loc) == DecodedAxes(getDataFromQueryParams(loc))

\* The entries of a decoded axis; none for null.
EntriesOf(v) == IF v.isNull THEN <<>> ELSE v.arr

\* The Y axis a submit would take from the form as it stands.
FormY == IF Len(Trim(yInput)) > 0 THEN getInputData(yInput) ELSE getInputData(xInput)

\* C2: back/forward re-derives the state from the URL alone.  After every
\* popstate the table is the grid of the axes decoded from the current URL
\* (none when the URL holds no X axis) and the X and Y fields stand for
\* those axes, with nothing left of what was shown before.
C2_PopstateShowsURLState ==
  (last.op = "popstate" /\ ~uncaught) =>
     /\ table = IF HasLength(AxesOf(search).x)
                THEN setCellContrast(buildTable(AxesOf(search).x.arr,
                                                AxesOf(search).y.arr), contrast)
                ELSE NoTable
     /\ getInputData(xInput) = EntriesOf(AxesOf(search).x)
     /\ FormY = EntriesOf(AxesOf(search).y)

\* The Y source of the last operation was not supplied: the Y field was
\* blank when handleSubmit or reverseInputData computed the axes (for a
\* reversal, after the fields were exchanged), or the URL that init or
\* handlePopstate decoded has no yAxisData.
YNotSupplied ==
  IF last.op \in {"submit", "reverse"} THEN Len(Trim(yInput)) = 0
  ELSE ParamsGet(URLSearchParams(search), <<"yAxisData">>).isNull

\* C7: Y defaults to X.  In every operation that passes axes to
\* writeTableToDOM (submit, reversal, popstate, init), a Y source that is
\* not supplied makes the Y axis passed equal to the X axis.
C7_YDefaultsToX ==
  (last.called /\ YNotSupplied) => last.y = last.x

\* C8: hydration leaves the Y field blank when Y equals X.  After every
\* hydrateForm call of init or handlePopstate whose decoded axes are equal
\* (and hold colors), the Y field is blank.
C8_HydrationBlanksY ==
  (last.op \in {"init", "popstate"} /\ last.called
     /\ HasLength(last.x) /\ last.x = last.y) =>
     Len(Trim(yInput)) = 0

\* Steps of the handlers of the form and of the history, told apart by
\* the operation they record; the threshold handlers record none, and a
\* step of theirs that changes anything changes contrast.
SubmitStep == last'.op = "submit" /\ contrast' = contrast

ReverseStep == last'.op = "reverse" /\ contrast' = contrast

InitStep == last.op = "load" /\ last'.op = "init"

PopstateStep == last'.op \in {"popstate", "none"} /\ contrast' = contrast

\* A step of handleSubmit on an X field that holds no valid color.
SubmitEmptyX == SubmitStep /\ getInputData(xInput) = <<>>

\* A step of reverseInputData (Y field populated) when the text that
\* becomes the X field holds no valid color.
ReverseEmptyX ==
  /\ ReverseStep
  /\ Len(Trim(yInput)) > 0
  /\ getInputData(yInput) = <<>>

\* C9: submitting with no valid X colors changes nothing persistent.  A
\* submit or reversal whose parsed X axis is empty leaves the query string,
\* the history stack and the table as they were and raises no exception.
C9_EmptyXChangesNothing ==
  [][(SubmitEmptyX \/ ReverseEmptyX) =>
       /\ UNCHANGED <<search, history, idx, table>>
       /\ ~uncaught']_vars

\* C9 witness: a submit with an empty X axis has run on a page that shows
\* a table and has pushed an entry before.
C9_Witness ==
  /\ last.op = "submit"
  /\ last.called
  /\ ~HasLength(last.x)
  /\ table.written
  /\ Len(history) >= 2

\* A step of handleSubmit or reverseInputData with a non-empty parsed X
\* axis.
PushingStep ==
  \/ SubmitStep /\ getInputData(xInput) # <<>>
  \/ ReverseStep /\ Len(Trim(yInput)) > 0 /\ getInputData(yInput) # <<>>

\* A back navigation, a forward navigation.
BackStep == PopstateStep /\ idx' < idx

ForwardStep == PopstateStep /\ idx' > idx

\* C10: history entries.  A submit or reversal with a non-empty X axis
\* pushes exactly one entry, which carries the encoded axes and becomes
\* current, and keeps the entries up to the former current one; init and
\* back/forward with handlePopstate push nothing and leave every entry's
\* URL as it was, back moving one entry down; so k back-navigations after k
\* submits go through the earlier URLs in reverse order.
C10_HistoryEntries ==
  [][/\ PushingStep =>
          /\ idx' = idx + 1
          /\ Len(history') = idx + 1
          /\ SubSeq(history', 1, idx) = SubSeq(history, 1, idx)
          /\ history'[idx'] = search'
          /\ AxesOf(search') = [threw |-> FALSE, x |-> last'.x, y |-> last'.y]
     /\ InitStep => UNCHANGED <<search, history, idx>>
     /\ BackStep => /\ history' = history
                    /\ idx' = idx - 1
                    /\ search' = history[idx - 1]
     /\ ForwardStep => /\ history' = history
                       /\ idx' = idx + 1
                       /\ search' = history[idx + 1]]_vars

\* C10 witness: two entries were pushed with different URLs and two
\* back-navigations have returned to the first entry.
C10_Witness ==
  /\ Len(history) = 3
  /\ history[2] # history[3]
  /\ history[1] # history[2]
  /\ idx = 1
  /\ last.op = "popstate"
\* C11: reversal is a no-op on an empty Y.  A step of reverseInputData
\* taken while the Y field is empty or holds only whitespace leaves the X
\* field, the Y field, the table, the URL and the history as they were.
C11_ReversalNoOpOnEmptyY ==
  [][(ReverseStep /\ Len(Trim(yInput)) = 0) =>
       UNCHANGED <<xInput, yInput, table, search, history, idx>>]_vars

\* C11 witness: reverseInputData has returned early on a Y field of
\* whitespace, with colors in the X field and a table on the page.
C11_Witness ==
  /\ last.op = "reverse"
  /\ ~last.called
  /\ yInput = <<" ">>
  /\ getInputData(xInput) # <<>>
  /\ table.written
  /\ Len(history) >= 2

\* A step of reverseInputData taken with a populated Y field.
ReversePopulatedY == ReverseStep /\ Len(Trim(yInput)) > 0

\* The step exchanges the two fields and passes the parse of the former Y
\* text as X axis and the parse of the former X text as Y axis; a second
\* reversal in a row passes the axes of the first, exchanged back.
SwapsFieldsAndAxes ==
  /\ xInput' = yInput
  /\ yInput' = xInput
  /\ last'.called
  /\ last'.x = Arr(getInputData(yInput))
  /\ last'.y = Arr(getInputData(xInput))
  /\ (last.op = "reverse" /\ last.called) =>
        (last'.x = last.y /\ last'.y = last.x)

\* The step rebuilds the table and the URL from the swapped axes.
RebuildsFromSwappedAxes ==
  /\ table' = setCellContrast(buildTable(getInputData(yInput),
                                         getInputData(xInput)), contrast)
  /\ history'[idx'] = search'
  /\ AxesOf(search') = [threw |-> FALSE,
                        x |-> Arr(getInputData(yInput)),
                        y |-> Arr(getInputData(xInput))]

\* C12 as stated: every reversal with a populated Y field exchanges the
\* fields, swaps the axes and rebuilds the grid and the URL from them.
C12_ReversalSwapsAndRebuilds ==
  [][ReversePopulatedY =>
       (SwapsFieldsAndAxes /\ RebuildsFromSwappedAxes)]_vars

\* C12: reversal swaps the axes wholesale.  A reversal with a populated Y
\* field exchanges the two fields and swaps the axes, twice in a row
\* restoring them; the grid and the URL are rebuilt from the swapped axes
\* when the former Y text holds a valid color, and are left as they were
\* when it holds none.
C12_ReversalSwaps ==
  [][ReversePopulatedY =>
       /\ SwapsFieldsAndAxes
       /\ IF getInputData(yInput) # <<>>
          THEN RebuildsFromSwappedAxes
          ELSE UNCHANGED <<table, search, history, idx>>]_vars

\* C12 witness: the page opened from a link with different axes has been
\* reversed twice: the second entry pushed holds the axes of the link
\* again, the first the swapped ones.
C12_Witness ==
  /\ last.op = "reverse"
  /\ last.x = LinkX
  /\ last.y = LinkY
  /\ idx = 3
  /\ AxesOf(history[2]).x = LinkY
  /\ AxesOf(history[2]).y = LinkX
  /\ AxesOf(search).x = LinkX

\* C13: the threshold comparison uses the full-precision ratio.  Every cell
\* of the table is flagged doesNotMeet exactly when the contrast ratio of
\* its two colors, unrounded, is below the threshold.
C13_FullPrecisionThreshold ==
  \A j \in 1..Len(table.rows) : \A i \in 1..Len(table.rows[j].tds) :
     table.rows[j].tds[i].doesNotMeet <=>
       readability(table.rows[j].tds[i].color1, table.rows[j].tds[i].color2)
         < contrast * 10

\* C14: entry invariant of the parser.  Every entry getInputData returns
\* has a color that passes the validity check, has no key other than color
\* and name, and has a name only if the name is non-empty after trimming.
C14_EntryInvariant ==
  step = "parsed" =>
    \A k \in 1..Len(output) :
       /\ HasKey(output[k], "color")
       /\ isValid(GetKey(output[k], "color"))
       /\ \A p \in 1..Len(output[k]) : output[k][p][1] \in {"color", "name"}
       /\ HasKey(output[k], "name") => Len(Trim(GetKey(output[k], "name"))) > 0

\* C14 witness: a line whose first segment is blank was parsed into an
\* entry with a color and no name.
C14_Witness ==
  /\ step = "parsed"
  /\ text = <<" ", ":", "red">>
  /\ output = << << <<"color", <<"red">>>> >> >>

\* The entries a line gives when its first two segments, cleaned, are
\* items: none unless the last item is a valid color; else one entry with
\* that color, named by the first item when that is a non-empty non-color.
EntriesOfItems(items) ==
  IF ~isValid(items[Len(items)]) THEN <<>>
  ELSE << (IF Len(items) = 2 /\ ~isValid(items[1]) /\ Len(items[1]) > 0
           THEN << <<"name", items[1]>> >> ELSE <<>>)
          \o << <<"color", items[Len(items)]>> >> >>

\* The first two ':'-delimited segments of a line.
FirstTwo(line) ==
  IF Len(Split(line, ":")) >= 2 THEN SubSeq(Split(line, ":"), 1, 2)
  ELSE Split(line, ":")

\* A segment with the first ';' and what follows removed, then a trailing
\* comma removed, then trimmed.
CleanedAsStated(segment) ==
  Trim(RemoveTrailingComma(RemoveSemicolon(segment)))

\* A segment with the first ';' and what follows removed, trimmed, then a
\* trailing comma removed, then trimmed again.
CleanedTrimmedTwice(segment) ==
  Trim(RemoveTrailingComma(Trim(RemoveSemicolon(segment))))

\* C15 as stated: every line is classified on, and stores, its segments
\* with the first ';' and the rest removed, then a single trailing comma
\* removed, then trimmed.
C15_CleanupAsStated ==
  step = "parsed" =>
    output = Concat([k \in 1..Len(Split(text, "\n")) |->
                       EntriesOfItems(
                         [i \in 1..Len(FirstTwo(Split(text, "\n")[k])) |->
                            CleanedAsStated(FirstTwo(Split(text, "\n")[k])[i])])])

\* C15: segment cleanup.  Every line is classified on, and stores, its
\* first two segments with the first ';' and the rest removed, trimmed,
\* then a single trailing comma removed, then trimmed again.
C15_Cleanup ==
  step = "parsed" =>
    output = Concat([k \in 1..Len(Split(text, "\n")) |->
                       EntriesOfItems(
                         [i \in 1..Len(FirstTwo(Split(text, "\n")[k])) |->
                            CleanedTrimmedTwice(FirstTwo(Split(text, "\n")[k])[i])])])

\* C15 witness: a color followed by a comma and a space was parsed into
\* the entry of that color.
C15_Witness ==
  /\ step = "parsed"
  /\ text = <<"red", ",", " ">>
  /\ output = << << <<"color", <<"red">>>> >> >>

\* C16: matrix shape and pairing.  The table written for X of length
\* m >= 1 and Y of length n has m header cells in X order and n rows in Y
\* order, each of m cells, the cell of row j and column i showing the
\* contrast ratio of the colors of Y[j] and X[i].
C16_MatrixShape ==
  (last.called /\ HasLength(last.x)) =>
    /\ table.written
    /\ Len(table.header) = Len(last.x.arr)
    /\ \A i \in 1..Len(last.x.arr) : table.header[i] = last.x.arr[i]
    /\ Len(table.rows) = Len(last.y.arr)
    /\ \A j \in 1..Len(last.y.arr) :
         /\ table.rows[j].th = last.y.arr[j]
         /\ Len(table.rows[j].tds) = Len(last.x.arr)
         /\ \A i \in 1..Len(last.x.arr) :
              table.rows[j].tds[i].textContent =
                toFixed2(readability(GetKey(last.y.arr[j], "color"),
                                     GetKey(last.x.arr[i], "color")))

\* C16 witness: the table of a two-entry X axis and a one-entry Y axis is
\* on the page, its one row showing 1.97 and 4.00.
C16_Witness ==
  /\ last.called
  /\ last.x = LinkX
  /\ last.y = LinkY
  /\ Len(table.rows) = 1
  /\ table.rows[1].tds[1].textContent = 197
  /\ table.rows[1].tds[2].textContent = 400

\* The URL loc has neither an xAxisData nor a yAxisData parameter.
NoAxisParams(loc) ==
  /\ ParamsGet(URLSearchParams(loc), <<"xAxisData">>).isNull
  /\ ParamsGet(URLSearchParams(loc), <<"yAxisData">>).isNull

\* C17: an empty query string is no state.  On a URL with neither
\* parameter init ends without an exception, with the listeners
\* registered, and handlePopstate ends without an exception; both leave
\* the table, the URL and the history entries as they are.
C17_EmptyQueryIsNoState ==
  [][/\ (InitStep /\ NoAxisParams(search)) =>
          /\ ~uncaught'
          /\ listeners'
          /\ table' = table
          /\ UNCHANGED <<search, history, idx>>
     /\ (PopstateStep /\ listeners /\ NoAxisParams(search')) =>
          /\ last'.op = "popstate"
          /\ ~uncaught'
          /\ table' = table
          /\ search' = history[idx']
          /\ history' = history]_vars

\* C17 witness: the page opened without a query string has its listeners,
\* and a back navigation to that first entry has run handlePopstate, the
\* table of the later entry still being on the page.
C17_Witness ==
  /\ search = <<>>
  /\ idx = 1
  /\ Len(history) >= 2
  /\ last.op = "popstate"
  /\ last.called
  /\ last.x = Null
  /\ listeners
  /\ ~uncaught
  /\ table.written

\* C18: two valid colors on one line.  A line whose first two segments
\* are both valid colors after cleanup yields one entry, whose color is the
\* second segment and which has no name.
C18_SecondColorWins ==
  (/\ step = "parsed"
   /\ ~HasAtom(text, "\n")
   /\ Len(Split(text, ":")) >= 2
   /\ isValid(CleanedTrimmedTwice(Split(text, ":")[1]))
   /\ isValid(CleanedTrimmedTwice(Split(text, ":")[2]))) =>
     output = << << <<"color", CleanedTrimmedTwice(Split(text, ":")[2])>> >> >>

\* C18 witness: the line 'red: tan' was parsed into the entry of tan.
C18_Witness ==
  /\ step = "parsed"
  /\ text = <<"red", ":", " ", "tan">>
  /\ output = << << <<"color", <<"tan">>>> >> >>

\* C19: hydration and parsing round trip.  The text hydrateForm writes
\* for the axis getInputData returned parses back to that axis.
C19_HydrateParseRoundTrip ==
  step = "parsed" => getInputData(HydrateText(output)) = output

\* C20: flag consistency.  Whenever a handler has finished, every cell of
\* the table is flagged doesNotMeet exactly when the ratio it shows is
\* below the value of the range input.
C20_FlagConsistency ==
  \A j \in 1..Len(table.rows) : \A i \in 1..Len(table.rows[j].tds) :
     table.rows[j].tds[i].doesNotMeet <=>
       table.rows[j].tds[i].textContent < contrast

\* C20 witness: with the threshold at 4.5 a table written by a reversal
\* shows a cell of 4.00 that is flagged, two entries having been pushed.
C20_Witness ==
  /\ contrast = 450
  /\ contrastValueLabel = 450
  /\ last.op = "reverse"
  /\ idx = 3
  /\ \E j \in 1..Len(table.rows) : \E i \in 1..Len(table.rows[j].tds) :
        /\ table.rows[j].tds[i].textContent = 400
        /\ table.rows[j].tds[i].doesNotMeet

====
